---- MODULE Spec2Model ----
(***************************************************************************)
(* ccwc (001/rust/ccwc/src/main.rs): a wc clone.  WCCmd::from_args builds  *)
(* the command, WCCmd::process reads and counts every input into outputs,  *)
(* WCCmd::show prints one WCOutput::as_string line per output.             *)
(*                                                                         *)
(* A byte is an integer 0..255, a byte buffer a sequence of bytes, a Rust  *)
(* String a TLA+ string, Option<String> a sequence of length 0 or 1.       *)
(***************************************************************************)
EXTENDS Integers, Sequences, FiniteSets, TLC

VARIABLES bytes, lines, words, chars, inputs, outputs, buffer, idx, sidx,
          pc, result, stdout, read

vars == <<bytes, lines, words, chars, inputs, outputs, buffer, idx, sidx,
          pc, result, stdout, read>>

(* ---------------------------- bounds ----------------------------------- *)

\* most file arguments on the command line
MaxInputs == 2

\* most bytes one input holds
MaxLen == 2

\* the bytes inputs are made of: LF, space, 'a', the two bytes of U+00E9
\* (0xC3 0xA9) and 0xFF, which no UTF-8 text contains
Alphabet == {10, 32, 97, 195, 169, 255}

RECURSIVE SeqsUpTo(_, _)
SeqsUpTo(S, n) ==
    IF n = 0 THEN {<<>>}
    ELSE LET shorter == SeqsUpTo(S, n - 1)
         IN  shorter \cup {Append(s, b) : s \in {t \in shorter : Len(t) = n - 1}, b \in S}

ByteSeqs == SeqsUpTo(Alphabet, MaxLen)

\* counts and names the formatter is tried on
FmtCounts == {0, 7, 10, 123}
FmtNames == {<<>>, <<"notes.txt">>}

(* ---------------------------- helpers ---------------------------------- *)

None == <<>>
Some(s) == <<s>>

Digit == <<"0", "1", "2", "3", "4", "5", "6", "7", "8", "9">>

\* Display for u64: the decimal digits, most significant first
RECURSIVE FormatU64(_)
FormatU64(n) ==
    IF n < 10 THEN Digit[n + 1]
    ELSE FormatU64(n \div 10) \o Digit[(n % 10) + 1]

\* the i-th file argument of the command line
FileName(i) == "f" \o FormatU64(i)

\* u8::is_ascii_whitespace: space, \t, \n, form feed, \r
is_ascii_whitespace(b) == b \in {32, 9, 10, 12, 13}

IsCont(b) == b \in 128..191

\* String::from_utf8 from byte i on: Ok with the scalar values the bytes
\* decode to, or Err (well-formed sequences only: no overlong forms, no
\* surrogates, at most U+10FFFF)
Utf8Err == [ok |-> FALSE, val |-> <<>>]

RECURSIVE Utf8Decode(_, _)
Utf8Decode(s, i) ==
    IF i > Len(s) THEN [ok |-> TRUE, val |-> <<>>]
    ELSE
      LET b == s[i]
          n == IF b < 128 THEN 1
               ELSE IF b \in 194..223 THEN 2
               ELSE IF b \in 224..239 THEN 3
               ELSE IF b \in 240..244 THEN 4
               ELSE 0
          wellFormed ==
              /\ n > 0
              /\ i + n - 1 <= Len(s)
              /\ \A k \in 1..(n - 1) : IsCont(s[i + k])
              /\ b = 224 => s[i + 1] \in 160..191
              /\ b = 237 => s[i + 1] \in 128..159
              /\ b = 240 => s[i + 1] \in 144..191
              /\ b = 244 => s[i + 1] \in 128..143
          scalar ==
              IF n = 1 THEN b
              ELSE IF n = 2 THEN (b - 192) * 64 + (s[i + 1] - 128)
              ELSE IF n = 3 THEN (b - 224) * 4096 + (s[i + 1] - 128) * 64
                                 + (s[i + 2] - 128)
              ELSE (b - 240) * 262144 + (s[i + 1] - 128) * 4096
                   + (s[i + 2] - 128) * 64 + (s[i + 3] - 128)
      IN  IF ~wellFormed THEN Utf8Err
          ELSE LET rest == Utf8Decode(s, i + n)
               IN  IF ~rest.ok THEN Utf8Err
                   ELSE [ok |-> TRUE, val |-> <<scalar>> \o rest.val]

from_utf8(s) == Utf8Decode(s, 1)

(* ---------------------------- WCCmd / WCInput / WCOutput --------------- *)

use_default_flags == ~chars /\ ~lines /\ ~words /\ ~bytes

StdIn == [kind |-> "StdIn"]
File(f) == [kind |-> "File", name |-> f]

path(input) == IF input.kind = "File" THEN Some(input.name) ELSE None

\* WCOutput::default()
WCOutputDefault ==
    [byte_ct |-> 0, line_ct |-> 0, word_ct |-> 0, char_ct |-> 0,
     filename |-> None]

\* what from_args leaves in inputs: the file arguments in order, or the
\* standard input alone when there is none
ParsedInputs(n) ==
    IF n = 0 THEN <<StdIn>> ELSE [i \in 1..n |-> File(FileName(i))]

\* the outcomes of WCInput::as_buffer: the bytes read_to_end appends, or the
\* error of File::open or of read_to_end
ReadOutcomes(input) ==
    {[ok |-> TRUE, data |-> d, err |-> ""] : d \in ByteSeqs}
      \cup {[ok |-> FALSE, data |-> <<>>, err |-> "read"]}
      \cup (IF input.kind = "File"
            THEN {[ok |-> FALSE, data |-> <<>>, err |-> "open"]} ELSE {})

\* the three per-byte updates of the loop body

\* byte_step forgetting the default mode
byte_step_nodefault(out, b) ==
    IF bytes THEN [out EXCEPT !.byte_ct = @ + 1] ELSE out

byte_step(out, b) ==
    IF bytes \/ use_default_flags
    THEN [out EXCEPT !.byte_ct = @ + 1] ELSE out

\* line_step taking every whitespace byte for a line end
line_step_anyspace(out, b) ==
    IF (lines \/ use_default_flags) /\ is_ascii_whitespace(b)
    THEN [out EXCEPT !.line_ct = @ + 1] ELSE out

line_step(out, b) ==
    IF (lines \/ use_default_flags) /\ b = 10
    THEN [out EXCEPT !.line_ct = @ + 1] ELSE out

\* st = [out, parsing_word]
word_step(st, b) ==
    IF words \/ use_default_flags
    THEN IF st.parsing_word
         THEN IF is_ascii_whitespace(b)
              THEN [out |-> [st.out EXCEPT !.word_ct = @ + 1],
                    parsing_word |-> FALSE]
              ELSE st
         ELSE IF ~is_ascii_whitespace(b)
              THEN [st EXCEPT !.parsing_word = TRUE]
              ELSE st
    ELSE st

\* the toggle starting outside a word
parsing_word_init_false == FALSE

\* let mut parsing_word = true
parsing_word_init == TRUE

\* for b in buffer.iter() { ... }, from byte i on
RECURSIVE byte_loop(_, _, _)
byte_loop(st, buf, i) ==
    IF i > Len(buf) THEN st
    ELSE LET o1 == line_step(byte_step(st.out, buf[i]), buf[i])
         IN  byte_loop(word_step([st EXCEPT !.out = o1], buf[i]), buf, i + 1)

\* char_step counting the bytes of the decoded text, not its scalar values
char_step_len(out, buf) ==
    IF chars
    THEN LET s == from_utf8(buf)
         IN  IF s.ok
             THEN [out EXCEPT !.char_ct = Len(buf)]
             ELSE [out EXCEPT !.char_ct = out.byte_ct]
    ELSE out

\* if self.chars { match String::from_utf8(..) { .. } }
char_step(out, buf) ==
    IF chars
    THEN LET s == from_utf8(buf)
         IN  IF s.ok
             THEN [out EXCEPT !.char_ct = Len(s.val)]
             ELSE [out EXCEPT !.char_ct = out.byte_ct]
    ELSE out

\* the buffer left as it is
clear_missing(buf) == buf

\* buffer.clear()
clear(buf) == <<>>

\* one iteration of the for loop of process, as_buffer having appended data
count_input(input, buf) ==
    LET out0 == [WCOutputDefault EXCEPT !.filename = path(input)]
        st   == byte_loop([out |-> out0, parsing_word |-> parsing_word_init],
                          buf, 1)
    IN  char_step(st.out, buf)

\* as_string showing the bytes column ahead of, and together with, chars
as_string_both(o) ==
    LET l == IF lines \/ use_default_flags
             THEN "\t" \o FormatU64(o.line_ct) ELSE ""
        w == IF words \/ use_default_flags
             THEN "\t" \o FormatU64(o.word_ct) ELSE ""
        b == IF bytes \/ use_default_flags
             THEN "\t" \o FormatU64(o.byte_ct) ELSE ""
        c == IF chars THEN "\t" \o FormatU64(o.char_ct) ELSE ""
        f == IF o.filename # None THEN " " \o o.filename[1] ELSE ""
    IN  l \o w \o b \o c \o f

as_string(o) ==
    LET l == IF lines \/ use_default_flags
             THEN "\t" \o FormatU64(o.line_ct) ELSE ""
        w == IF words \/ use_default_flags
             THEN "\t" \o FormatU64(o.word_ct) ELSE ""
        c == IF chars THEN "\t" \o FormatU64(o.char_ct)
             ELSE IF bytes \/ use_default_flags
                  THEN "\t" \o FormatU64(o.byte_ct) ELSE ""
        f == IF o.filename # None THEN " " \o o.filename[1] ELSE ""
    IN  l \o w \o c \o f

(* ---------------------------- the run ---------------------------------- *)

\* what main got back from process: nothing yet, Ok(()), or the io::Error
\* of the input that failed
NotReturned == [kind |-> "none", err |-> "", input |-> 0]
Ok == [kind |-> "Ok", err |-> "", input |-> 0]
Err(e, i) == [kind |-> "Err", err |-> e, input |-> i]

Init ==
    /\ bytes \in BOOLEAN /\ lines \in BOOLEAN
    /\ words \in BOOLEAN /\ chars \in BOOLEAN
    /\ \E n \in 0..MaxInputs : inputs = ParsedInputs(n)
    /\ outputs = <<>>
    /\ buffer = <<>>
    /\ idx = 1
    /\ sidx = 1
    /\ pc = "process"
    /\ result = NotReturned
    /\ stdout = <<>>
    /\ read = <<>>

\* an iteration of process whose as_buffer succeeds
ProcessInput ==
    /\ pc = "process" /\ idx <= Len(inputs)
    /\ \E r \in {o \in ReadOutcomes(inputs[idx]) : o.ok} :
         LET buf == buffer \o r.data
         IN  /\ outputs' = Append(outputs, count_input(inputs[idx], buf))
             /\ buffer' = clear(buf)
             /\ read' = Append(read, r)
    /\ idx' = idx + 1
    /\ UNCHANGED <<bytes, lines, words, chars, inputs, sidx, pc, result, stdout>>

\* a failing input skipped, the loop going on with the next one
ProcessFail_skip ==
    /\ pc = "process" /\ idx <= Len(inputs)
    /\ \E r \in {o \in ReadOutcomes(inputs[idx]) : ~o.ok} :
         read' = Append(read, r)
    /\ idx' = idx + 1
    /\ UNCHANGED <<bytes, lines, words, chars, inputs, outputs, buffer, sidx,
                   pc, result, stdout>>

\* main dropping the error of process and going on to show
ProcessFail_show ==
    /\ pc = "process" /\ idx <= Len(inputs)
    /\ \E r \in {o \in ReadOutcomes(inputs[idx]) : ~o.ok} :
         /\ read' = Append(read, r)
         /\ result' = Err(r.err, idx)
    /\ pc' = "show"
    /\ UNCHANGED <<bytes, lines, words, chars, inputs, outputs, buffer, idx,
                   sidx, stdout>>

\* an iteration whose as_buffer fails: `?` returns the error from process,
\* and the `?` of main returns it from main
ProcessFail ==
    /\ pc = "process" /\ idx <= Len(inputs)
    /\ \E r \in {o \in ReadOutcomes(inputs[idx]) : ~o.ok} :
         /\ read' = Append(read, r)
         /\ result' = Err(r.err, idx)
    /\ pc' = "exit"
    /\ UNCHANGED <<bytes, lines, words, chars, inputs, outputs, buffer, idx,
                   sidx, stdout>>

\* the loop is over: process returns Ok(()) and main goes on to show
ProcessOk ==
    /\ pc = "process" /\ idx > Len(inputs)
    /\ result' = Ok
    /\ pc' = "show"
    /\ UNCHANGED <<bytes, lines, words, chars, inputs, outputs, buffer, idx,
                   sidx, stdout, read>>

\* one println! of show
Show ==
    /\ pc = "show" /\ sidx <= Len(outputs)
    /\ stdout' = Append(stdout, as_string(outputs[sidx]))
    /\ sidx' = sidx + 1
    /\ UNCHANGED <<bytes, lines, words, chars, inputs, outputs, buffer, idx,
                   pc, result, read>>

\* show is over: main returns Ok(())
MainReturn ==
    /\ pc = "show" /\ sidx > Len(outputs)
    /\ pc' = "exit"
    /\ UNCHANGED <<bytes, lines, words, chars, inputs, outputs, buffer, idx,
                   sidx, result, stdout, read>>

Next == ProcessInput \/ ProcessFail \/ ProcessOk \/ Show \/ MainReturn

Spec == Init /\ [][Next]_vars

(* as_string on any WCOutput: the command holds one output of any counts   *)
(* and name, as the tests of as_string build it, and show prints it.       *)

InitFmt ==
    /\ bytes \in BOOLEAN /\ lines \in BOOLEAN
    /\ words \in BOOLEAN /\ chars \in BOOLEAN
    /\ inputs = <<>>
    /\ \E b \in FmtCounts, l \in FmtCounts, w \in FmtCounts, c \in FmtCounts,
          f \in FmtNames :
         outputs = <<[byte_ct |-> b, line_ct |-> l, word_ct |-> w,
                      char_ct |-> c, filename |-> f]>>
    /\ buffer = <<>>
    /\ idx = 1
    /\ sidx = 1
    /\ pc = "show"
    /\ result = Ok
    /\ stdout = <<>>
    /\ read = <<>>

NextFmt == Show \/ MainReturn

SpecFmt == InitFmt /\ [][NextFmt]_vars

TypeOK ==
    /\ pc \in {"process", "show", "exit"}
    /\ Len(outputs) <= Len(inputs) \/ inputs = <<>>

(* ---------------------------- properties ------------------------------- *)

\* the classification the claims call ASCII whitespace
WhiteSpace == {9, 10, 12, 13, 32}

\* the bytes as_buffer returned for the i-th input
Data(i) == read[i].data

\* the outputs process has pushed; each comes from a read that succeeded
Counted == 1..Len(outputs)

wordsOn == words \/ use_default_flags
linesOn == lines \/ use_default_flags
bytesOn == bytes \/ use_default_flags

\* number of maximal runs of non-whitespace bytes of S: the positions
\* where such a run starts
NumRuns(S) ==
    Cardinality({i \in 1..Len(S) :
        S[i] \notin WhiteSpace /\ (i = 1 \/ S[i - 1] \in WhiteSpace)})

\* number of whitespace bytes of S that are the first byte of S or come
\* right after a non-whitespace byte
NumToggles(S) ==
    Cardinality({i \in 1..Len(S) :
        S[i] \in WhiteSpace /\ (i = 1 \/ S[i - 1] \notin WhiteSpace)})

NumLF(S) == Cardinality({i \in 1..Len(S) : S[i] = 10})

\* the scalar values of a valid UTF-8 text are as many as its bytes that
\* are not continuation bytes (10xxxxxx)
NumScalars(S) == Cardinality({i \in 1..Len(S) : S[i] \notin 128..191})

ValidUtf8(S) == from_utf8(S).ok

\* C1: with words requested or in default mode, word_ct is the number of
\* maximal runs of non-whitespace bytes of the input.
C1_WordsAreRuns ==
    \A i \in Counted : wordsOn => outputs[i].word_ct = NumRuns(Data(i))

\* C2: with chars requested and an input that is not valid UTF-8, char_ct
\* is the number of bytes of the input (and with chars the only flag the
\* printed line is a tab and that number, then the name if any).
C2_InvalidFallsBackToLen ==
    \A i \in Counted :
        (chars /\ ~ValidUtf8(Data(i))) =>
            /\ outputs[i].char_ct = Len(Data(i))
            /\ (i <= Len(stdout) /\ ~bytes /\ ~lines /\ ~words) =>
                   stdout[i] = "\t" \o ToString(Len(Data(i)))
                       \o (IF inputs[i].kind = "File"
                           THEN " " \o inputs[i].name ELSE "")

\* C3: with bytes requested or in default mode, byte_ct is the length of
\* the input, whatever the other flags; 0 for the empty input.
C3_ByteCount ==
    \A i \in Counted : bytesOn => outputs[i].byte_ct = Len(Data(i))

C3_Witness ==
    \E i \in Counted :
        /\ use_default_flags /\ Len(Data(i)) = 2 /\ outputs[i].byte_ct = 2
        /\ i > 1 /\ Data(i - 1) = <<>> /\ outputs[i - 1].byte_ct = 0

\* C4: with lines requested or in default mode, line_ct is the number of
\* 0x0A bytes of the input, whatever the other flags.
C4_LineCount ==
    \A i \in Counted : linesOn => outputs[i].line_ct = NumLF(Data(i))

C4_Witness ==
    \E i \in Counted :
        /\ lines /\ Data(i) = <<32, 10>> /\ outputs[i].line_ct = 1

\* C5: with chars requested and a valid UTF-8 input, char_ct is the number
\* of scalar values of the input, whatever the other flags; with chars not
\* requested char_ct stays 0.
C5_CharCount ==
    \A i \in Counted :
        /\ (chars /\ ValidUtf8(Data(i))) =>
               outputs[i].char_ct = NumScalars(Data(i))
        /\ ~chars => outputs[i].char_ct = 0

C5_Witness ==
    \E i \in Counted :
        /\ chars /\ ~bytes /\ Data(i) = <<195, 169>> /\ outputs[i].char_ct = 1

\* the line the claim describes for output o
ExpectedLine(o) ==
    (IF linesOn THEN "\t" \o ToString(o.line_ct) ELSE "")
    \o (IF wordsOn THEN "\t" \o ToString(o.word_ct) ELSE "")
    \o (CASE chars -> "\t" \o ToString(o.char_ct)
          [] ~chars /\ bytesOn -> "\t" \o ToString(o.byte_ct)
          [] OTHER -> "")
    \o (IF Len(o.filename) = 1 THEN " " \o o.filename[1] ELSE "")

\* C6: the line as_string gives is the lines column if lines or default,
\* the words column if words or default, the chars column if chars and
\* else the bytes column if bytes or default, then the name if present.
C6_Format ==
    \A i \in 1..Len(stdout) : stdout[i] = ExpectedLine(outputs[i])

C6_Witness ==
    /\ Len(stdout) = 1 /\ chars /\ bytes /\ ~lines /\ ~words
    /\ outputs[1].char_ct = 123 /\ outputs[1].byte_ct = 7
    /\ outputs[1].filename = <<"notes.txt">>
    /\ stdout[1] = "\t123 notes.txt"

\* C7: when process returns Ok there is one output per input, in order,
\* with the input's name and the counts of that input's bytes alone.
C7_Independent ==
    result = Ok =>
        /\ Len(outputs) = Len(inputs)
        /\ \A i \in 1..Len(inputs) :
              /\ outputs[i].filename = path(inputs[i])
              /\ outputs[i] = count_input(inputs[i], Data(i))

C7_Witness ==
    /\ result = Ok /\ Len(inputs) = 2
    /\ Data(1) = <<97, 32>> /\ Data(2) = <<97>>
    /\ outputs[1].filename # outputs[2].filename

\* C8: when the k-th input fails to open or read, process returns that
\* error at once: nothing after the k-th is read, there are k-1 outputs,
\* and main ends with the error.
C8_FailStops ==
    \A k \in 1..Len(read) :
        ~read[k].ok =>
            /\ Len(read) = k
            /\ Len(outputs) = k - 1
            /\ result = Err(read[k].err, k)
            /\ pc = "exit"

C8_Witness ==
    /\ Len(inputs) = 2 /\ Len(read) = 1 /\ ~read[1].ok /\ pc = "exit"

\* C9: with words requested or in default mode, word_ct is the number of
\* whitespace bytes that are the first byte of the input or come right
\* after a non-whitespace byte.
C9_WordToggle ==
    \A i \in Counted : wordsOn => outputs[i].word_ct = NumToggles(Data(i))

C9_Witness ==
    \E i \in Counted, j \in Counted :
        /\ wordsOn
        /\ Data(i) = <<32, 97>> /\ outputs[i].word_ct = 1
        /\ Data(j) = <<97>> /\ outputs[j].word_ct = 0

\* C10: a line is on standard output only once every input has been read
\* and counted and process has returned Ok; a run with a failing input
\* prints nothing.
C10_NoEarlyOutput ==
    stdout # <<>> =>
        /\ result = Ok
        /\ Len(outputs) = Len(inputs)
        /\ \A k \in 1..Len(read) : read[k].ok

C10_Witness ==
    /\ pc = "exit" /\ result.kind = "Err" /\ Len(outputs) = 1
    /\ stdout = <<>>
====
